---- MODULE Spec2Model ----
(***************************************************************************)
(* Model of the document synchronisation of localized-rag:                 *)
(*   src/src/document_management.py  snapshot, classification, the cycle   *)
(*   src/src/manifest_utils.py       load_manifest / save_manifest         *)
(*   src/src/indexing.py             index_nodes_llamaindex,               *)
(*                                   load_existing_index                   *)
(*   src/src/main_fastapi.py         startup hook, upload/delete handlers  *)
(*                                                                         *)
(* Abstractions.  A file name is a pair <<stem, extension>>.  Modification *)
(* times (floats in the code) and sizes are small positive integers.  The  *)
(* lists docs_to_add, docs_to_update, filenames_to_delete hold each name   *)
(* at most once (they are filled from dict keys) and are modelled as sets. *)
(* A loaded document, and the nodes derived from it, are identified by the *)
(* name of the file they come from.  An index object is identified by a    *)
(* reference; heap[r] is the set of files whose content the index r holds. *)
(* The external collaborators (SimpleDirectoryReader, VectorStoreIndex,    *)
(* IngestionPipeline) are not under src/: each call either does its job or *)
(* fails, chosen nondeterministically.  save_manifest is modelled as       *)
(* always succeeding; manifests hold well-typed entries (possibly missing  *)
(* a field).                                                                *)
(***************************************************************************)
EXTENDS Integers, FiniteSets, Sequences, TLC

VARIABLES dir, manifest_file, index, heap, task, started, requests, last_done

vars == <<dir, manifest_file, index, heap, task, started, requests, last_done>>

-----------------------------------------------------------------------------
(* Bounds *)

MaxTime == 2
MaxSize == 2
MaxTasks == 2
MaxRequests == 2

-----------------------------------------------------------------------------
(* Values *)

None == 0

Times == 1..MaxTime
Sizes == 1..MaxSize
Tasks == 1..MaxTasks

PdfNames == {<<"a", ".pdf">>, <<"b", ".pdf">>}
OtherNames == {<<"n", ".txt">>}
FileNames == PdfNames \cup OtherNames

IndexIds == 1..(2 * MaxTasks + 2)

EmptyMap == [x \in {} |-> 0]

\* All maps from a subset of K into V.
Maps(K, V) == UNION {[D -> V] : D \in SUBSET K}

endswith_pdf(filename) == filename[2] = ".pdf"

\* A file on disk: <<last modified, size>>.  The directory always holds one
\* file that is not a PDF, which the snapshot has to skip; its record never
\* influences the cycle, so one record is enough for it.
DirListings ==
    {d \in Maps(FileNames, Times \X Sizes) :
        \A f \in OtherNames : f \in DOMAIN d /\ d[f] = <<1, 1>>}

\* A manifest entry is a JSON object; a missing key reads as None via .get.
CompleteEntries == {e \in [{"last_modified", "file_size"} -> Times \cup Sizes] :
                        e["last_modified"] \in Times /\ e["file_size"] \in Sizes}
\* An entry that lacks one of the two keys; the code looks at no other value
\* of such an entry.
IncompleteEntries == {[k \in {"last_modified"} |-> 1], [k \in {"file_size"} |-> 1]}
Entries == CompleteEntries \cup IncompleteEntries

Manifests ==
    {m \in Maps(FileNames, Entries) :
        \A f \in DOMAIN m : ~endswith_pdf(f) =>
            m[f] = [k \in {"last_modified", "file_size"} |-> 1]}

-----------------------------------------------------------------------------
(* manifest_utils.py *)

\* The manifest file is absent, unparsable, or holds a JSON object.
load_manifest(mf) == IF mf.state = "json" THEN mf.data ELSE EmptyMap

save_manifest(manifest) == [state |-> "json", data |-> manifest]

-----------------------------------------------------------------------------
(* document_management.py: snapshot and classification *)

\* d.ok = FALSE: os.listdir raises, the error is logged, {} is returned.
get_document_state(d) ==
    IF d.ok
    THEN [f \in {g \in DOMAIN d.files : endswith_pdf(g)} |-> d.files[f]]
    ELSE EmptyMap

\* dict.get(key): None when the key is missing.
get(entry, key) == IF key \in DOMAIN entry THEN entry[key] ELSE None

\* Mutant: a manifest without entries adds nothing.
docs_to_add_known(S, M) == {f \in DOMAIN S : f \notin DOMAIN M /\ M # EmptyMap}

\* Mutant: an entry that lacks a field counts as a new file.
docs_to_add_incomplete(S, M) ==
    {f \in DOMAIN S : f \notin DOMAIN M
                         \/ DOMAIN M[f] # {"last_modified", "file_size"}}

\* Lines 66-69: the snapshot keys the manifest does not have.
docs_to_add(S, M) == {f \in DOMAIN S : f \notin DOMAIN M}

\* Mutant: the two change conditions joined by "and".
is_updated_and(rec, old_entry) ==
    LET old_last_modified == get(old_entry, "last_modified")
        old_file_size == get(old_entry, "file_size")
    IN  IF old_last_modified = None \/ old_file_size = None
        THEN TRUE
        ELSE rec[1] > old_last_modified /\ rec[2] # old_file_size

\* Mutant: any difference of the timestamps counts as a change.
is_updated_ne(rec, old_entry) ==
    LET old_last_modified == get(old_entry, "last_modified")
        old_file_size == get(old_entry, "file_size")
    IN  IF old_last_modified = None \/ old_file_size = None
        THEN TRUE
        ELSE rec[1] # old_last_modified \/ rec[2] # old_file_size

\* Mutant: an entry that lacks a field is left alone.
is_updated_skip(rec, old_entry) ==
    LET old_last_modified == get(old_entry, "last_modified")
        old_file_size == get(old_entry, "file_size")
    IN  IF old_last_modified = None \/ old_file_size = None
        THEN FALSE
        ELSE rec[1] > old_last_modified \/ rec[2] # old_file_size

is_updated(rec, old_entry) ==
    LET old_last_modified == get(old_entry, "last_modified")
        old_file_size == get(old_entry, "file_size")
    IN  IF old_last_modified = None \/ old_file_size = None
        THEN TRUE
        ELSE rec[1] > old_last_modified \/ rec[2] # old_file_size

docs_to_update(S, M) ==
    {f \in DOMAIN S : f \in DOMAIN M /\ is_updated(S[f], M[f])}

\* Mutant: the test "not in the snapshot" is lost.
filenames_to_delete_all(S, M) == {f \in DOMAIN M : endswith_pdf(f)}

\* Mutant: the extension test of line 82 is lost.
filenames_to_delete_nofilter(S, M) == {f \in DOMAIN M : f \notin DOMAIN S}

filenames_to_delete(S, M) ==
    {f \in DOMAIN M : f \notin DOMAIN S /\ endswith_pdf(f)}

\* The manifest written at the end of the cycle (lines 139-142).
updated_manifest_data(S) ==
    [f \in DOMAIN S |-> [last_modified |-> S[f][1], file_size |-> S[f][2]]]

\* Mutant: the elif of line 109 turned into an else.
branch_else(add, upd, del) ==
    IF upd # {} \/ del # {} THEN "full" ELSE "incremental"

\* Which case of the if / elif / else at lines 87, 109, 135 runs.
branch(add, upd, del) ==
    IF upd # {} \/ del # {} THEN "full"
    ELSE IF add # {} THEN "incremental"
    ELSE "none"

-----------------------------------------------------------------------------
(* Collaborators.  Outcomes: "ok", "empty" (nothing came back), "raise". *)

LoadOutcomes == {"ok", "empty", "raise"}
CallOutcomes == {"ok", "raise"}
Reliable == {"ok"}

\* The PDFs SimpleDirectoryReader(input_dir, required_exts=[".pdf"]) finds.
listing(d) == IF d.ok THEN {f \in DOMAIN d.files : endswith_pdf(f)} ELSE {}

\* load_documents_llamaindex when it returns: the files whose documents
\* come back.  An empty file_paths falls through to the directory.
load_documents_llamaindex(ls, file_paths, lo) ==
    IF lo = "ok"
    THEN (IF file_paths # {} THEN file_paths ELSE ls)
    ELSE {}

\* Mutant: the incremental case loads the whole directory.
files_to_load_all(add, ls) == ls

\* What the incremental case hands to the loader (line 112).
files_to_load(add, ls) == add

\* ingestion_pipeline.arun when it returns: the nodes, named by source file.
arun(documents, to) == IF to = "ok" THEN documents ELSE {}

\* index.insert_nodes inside index_nodes_llamaindex: a failure is logged and
\* swallowed there (indexing.py lines 19-35).
insert_nodes(h, ref, nodes, no) ==
    IF no = "ok" THEN [h EXCEPT ![ref] = @ \cup nodes] ELSE h

-----------------------------------------------------------------------------
(* document_management.py: the cycle, cut at its two await points *)

\* calls is the log of the collaborator calls of the cycle, in order:
\* <<call, index reference or None, files, outcome>>.
Seg(pc, ret, docs, calls, outcome, h) ==
    [pc |-> pc, index_to_return |-> ret, documents |-> docs, calls |-> calls,
     outcome |-> outcome, heap |-> h]

\* Case 1 (lines 87-97): up to the await of ingestion_pipeline.arun.
full_reindex(ls, existing, h, new, lo, bo) ==
    LET c1 == << <<"load_dir", None, {}, lo>> >>
        all_documents == load_documents_llamaindex(ls, {}, lo)
        c2 == Append(c1, <<"from_documents", new, all_documents, bo>>)
    IN  IF lo = "raise" THEN Seg("done", existing, {}, c1, "raised", h)
        ELSE IF all_documents = {}
        THEN Seg("done", existing, {}, c1, "returned", h)
        ELSE IF bo = "raise"
        THEN Seg("done", existing, all_documents, c2, "returned", h)
        ELSE Seg("await_full", new, all_documents, c2, "running",
                 [h EXCEPT ![new] = all_documents])

\* Mutant: the index built for want of an existing one then goes through
\* ingestion and insertion like an existing one.
insert_incrementally_ingest(add, ls, existing, h, new, lo, bo) ==
    LET paths == files_to_load(add, ls)
        c1 == << <<"load_files", None, paths, lo>> >>
        new_documents == load_documents_llamaindex(ls, paths, lo)
        c2 == Append(c1, <<"from_documents", new, new_documents, bo>>)
    IN  IF lo = "raise" THEN Seg("done", existing, {}, c1, "raised", h)
        ELSE IF new_documents = {}
        THEN Seg("done", existing, {}, c1, "returned", h)
        ELSE IF existing = None
        THEN (IF bo = "raise"
              THEN Seg("done", existing, new_documents, c2, "raised", h)
              ELSE Seg("await_incr", new, new_documents, c2, "running",
                       [h EXCEPT ![new] = new_documents]))
        ELSE Seg("await_incr", existing, new_documents, c1, "running", h)

\* Case 2 (lines 109-123): up to the await, or to the end when there is no
\* existing index.  from_documents at line 116 is outside any try.
insert_incrementally(add, ls, existing, h, new, lo, bo) ==
    LET paths == files_to_load(add, ls)
        c1 == << <<"load_files", None, paths, lo>> >>
        new_documents == load_documents_llamaindex(ls, paths, lo)
        c2 == Append(c1, <<"from_documents", new, new_documents, bo>>)
    IN  IF lo = "raise" THEN Seg("done", existing, {}, c1, "raised", h)
        ELSE IF new_documents = {}
        THEN Seg("done", existing, {}, c1, "returned", h)
        ELSE IF existing = None
        THEN (IF bo = "raise"
              THEN Seg("done", existing, new_documents, c2, "raised", h)
              ELSE Seg("done", new, new_documents, c2, "returned",
                       [h EXCEPT ![new] = new_documents]))
        ELSE Seg("await_incr", existing, new_documents, c1, "running", h)

\* Lines 56-97/123: snapshot, classification and the chosen case.
sync_begin(S, M, ls, existing, h, new, lo, bo) ==
    LET add == docs_to_add(S, M)
        upd == docs_to_update(S, M)
        del == filenames_to_delete(S, M)
        b == branch(add, upd, del)
    IN  IF b = "full" THEN full_reindex(ls, existing, h, new, lo, bo)
        ELSE IF b = "incremental"
        THEN insert_incrementally(add, ls, existing, h, new, lo, bo)
        ELSE Seg("done", existing, {}, <<>>, "returned", h)

\* index_nodes_llamaindex (indexing.py lines 10-37): nothing to do without
\* nodes; a failure of insert_nodes is logged and swallowed.
index_nodes_llamaindex(h, ref, nodes, no) ==
    IF nodes = {} THEN h ELSE insert_nodes(h, ref, nodes, no)

\* Lines 97-105 and 123-132: after the await.  to: arun; io: the statement
\* `from indexing import index_nodes_llamaindex` (an absolute import inside a
\* package: whether it resolves depends on the module search path);
\* no: insert_nodes.  Every failure is caught.
sync_resume(rec, h, to, io, no) ==
    LET nodes == arun(rec.documents, to)
        ref == rec.index_to_return
        c1 == Append(rec.calls, <<"arun", None, rec.documents, to>>)
        c2 == Append(c1, <<"import", None, {}, io>>)
        c3 == IF nodes = {} THEN c2
              ELSE Append(c2, <<"insert_nodes", ref, nodes, no>>)
    IN  IF to = "raise" THEN Seg("done", ref, rec.documents, c1, "returned", h)
        ELSE IF io = "raise"
        THEN Seg("done", ref, rec.documents, c2, "returned", h)
        ELSE Seg("done", ref, rec.documents, c3, "returned",
                 index_nodes_llamaindex(h, ref, nodes, no))

-----------------------------------------------------------------------------
(* main_fastapi.py: the callers of the cycle *)

NoFile == <<"", "">>

\* What the persisted vector store holds at start.  The two PDF names are
\* interchangeable in every other part of the initial state, so the store
\* that holds only "b.pdf" is the mirror image of the one listed.
StoreContents == {{}, {<<"a", ".pdf">>}, PdfNames}

\* A caller of the cycle with the locals of its cycle.  kind: "startup",
\* "upload" or "delete"; response: "" (none yet), "200", "500".
IdleTask ==
    [pc |-> "idle", kind |-> "", file |-> NoFile, response |-> "",
     outcome |-> "", existing_index |-> None, index_to_return |-> None,
     current_document_state |-> EmptyMap, manifest_data |-> EmptyMap,
     docs_to_add |-> {}, docs_to_update |-> {}, filenames_to_delete |-> {},
     documents |-> {}, calls |-> <<>>]

Refs(tk) == UNION {{tk[t].existing_index, tk[t].index_to_return} : t \in DOMAIN tk}

\* The smallest reference no live object has.
FreshRef(used) == CHOOSE r \in IndexIds \ used : \A q \in IndexIds \ used : r <= q

\* Objects nothing refers to are dropped.
Collect(h, idx, tk) ==
    [r \in IndexIds |-> IF r \in Refs(tk) \cup {idx} THEN h[r] ELSE {}]

\* A call of the log that did not do its job.
Failed(calls) == \E i \in 1..Len(calls) : calls[i][4] # "ok"

\* Mutant: the manifest advances only when every call of the cycle succeeded.
write_back_on_success(outcome, calls, S, mf) ==
    IF outcome = "returned" /\ ~Failed(calls)
    THEN save_manifest(updated_manifest_data(S))
    ELSE mf

\* "Always update the manifest" (lines 138-143): reached by every cycle that
\* returns, whatever was caught before; mf is the file as it was.
write_back(outcome, calls, S, mf) ==
    IF outcome = "returned" THEN save_manifest(updated_manifest_data(S)) ELSE mf

\* `index = await sync_documents_with_vector_store(..., existing_index=index)`
\* from the call to the first await of the cycle, or to its end.  d is the
\* directory at the call, idx the caller's global index at the call.
call_sync(t, kind, file, d, idx, lo, bo) ==
    LET S == get_document_state(d)
        M == load_manifest(manifest_file)
        others == [u \in Tasks \ {t} |-> task[u]]
        new == FreshRef(Refs(others) \cup {index, idx})
        seg == sync_begin(S, M, listing(d), idx, heap, new, lo, bo)
        rec == [pc |-> seg.pc, kind |-> kind, file |-> file,
                response |-> IF kind = "startup" THEN ""
                             ELSE IF seg.outcome = "returned" THEN "200"
                             ELSE IF seg.outcome = "raised" THEN "500" ELSE "",
                outcome |-> seg.outcome,
                existing_index |-> idx,
                index_to_return |-> seg.index_to_return,
                current_document_state |-> S, manifest_data |-> M,
                docs_to_add |-> docs_to_add(S, M),
                docs_to_update |-> docs_to_update(S, M),
                filenames_to_delete |-> filenames_to_delete(S, M),
                documents |-> seg.documents, calls |-> seg.calls]
        idx2 == IF seg.outcome = "returned" THEN seg.index_to_return ELSE idx
        tk2 == [task EXCEPT ![t] = rec]
    IN  /\ task' = tk2
        /\ index' = idx2
        /\ heap' = Collect(seg.heap, idx2, tk2)
        /\ manifest_file' = write_back(seg.outcome, seg.calls, S, manifest_file)
        /\ started' = (started \/ (kind = "startup" /\ seg.outcome = "returned"))
        /\ last_done' = IF seg.pc = "done" THEN t ELSE last_done

\* The cycle after its await, the manifest write-back and the caller's
\* assignment of the returned index.
resume_sync(t, to, io, no) ==
    LET seg == sync_resume(task[t], heap, to, io, no)
        rec == [task[t] EXCEPT !.pc = seg.pc, !.outcome = seg.outcome,
                               !.response = IF @ = "" /\ task[t].kind # "startup"
                                            THEN "200" ELSE @,
                               !.calls = seg.calls]
        tk2 == [task EXCEPT ![t] = rec]
    IN  /\ task[t].pc \in {"await_full", "await_incr"}
        /\ task' = tk2
        /\ index' = seg.index_to_return
        /\ heap' = Collect(seg.heap, seg.index_to_return, tk2)
        /\ manifest_file' = write_back(seg.outcome, seg.calls,
                                       task[t].current_document_state, manifest_file)
        /\ started' = (started \/ task[t].kind = "startup")
        /\ last_done' = t
        /\ UNCHANGED dir

\* load_existing_index: the index over the persisted vector store (object 1
\* at start), or None when it cannot be loaded, whether or not the manifest
\* file exists.
load_existing_index(loaded) == IF loaded THEN 1 ELSE None

\* A store that cannot be loaded is never read: its content is taken empty.
startup(LO, CO) ==
    /\ ~started /\ task[1].pc = "idle"
    /\ \E loaded \in BOOLEAN, lo \in LO, bo \in CO :
          /\ loaded \/ heap[1] = {}
          /\ call_sync(1, "startup", NoFile, dir, load_existing_index(loaded), lo, bo)
    /\ UNCHANGED <<dir, requests>>

resume(TO, CO) ==
    /\ \E t \in Tasks : \E to \in TO, io \in CO, no \in CO : resume_sync(t, to, io, no)
    /\ UNCHANGED requests

\* The slot a new request runs in.  Slots are interchangeable: a request takes
\* the first slot never used, or else the first whose request is over.
free_slot(t) ==
    LET idle == {u \in Tasks : task[u].pc = "idle"}
        over == {u \in Tasks : task[u].pc = "done"}
        pool == IF idle # {} THEN idle ELSE over
    IN  t \in pool /\ \A u \in pool : t <= u

\* A request answered with an HTTPException before any cycle starts.
reject(t, kind, file, code) ==
    LET tk2 == [task EXCEPT ![t] = [IdleTask EXCEPT !.pc = "done", !.kind = kind,
                                     !.file = file, !.response = code]]
    IN  /\ task' = tk2
        /\ heap' = Collect(heap, index, tk2)
        /\ UNCHANGED <<dir, manifest_file, index, started, last_done>>

write_file(files, f, rec) ==
    [g \in DOMAIN files \cup {f} |-> IF g = f THEN rec ELSE files[g]]

remove_file(files, f) == [g \in DOMAIN files \ {f} |-> files[g]]

\* POST /documents (lines 64-84): the file is written, then the cycle runs.
add_document(t, file, rec, lo, bo) ==
    /\ started /\ free_slot(t) /\ requests < MaxRequests
    /\ requests' = requests + 1
    /\ IF ~endswith_pdf(file) THEN reject(t, "upload", file, "400")
       ELSE IF ~dir.ok THEN reject(t, "upload", file, "500")
       ELSE LET d == [dir EXCEPT !.files = write_file(dir.files, file, rec)]
            IN  dir' = d /\ call_sync(t, "upload", file, d, index, lo, bo)

\* DELETE /documents/{filename} (lines 86-105).
delete_document(t, file, lo, bo) ==
    /\ started /\ free_slot(t) /\ requests < MaxRequests
    /\ requests' = requests + 1
    /\ IF ~dir.ok \/ file \notin DOMAIN dir.files THEN reject(t, "delete", file, "404")
       ELSE LET d == [dir EXCEPT !.files = remove_file(dir.files, file)]
            IN  dir' = d /\ call_sync(t, "delete", file, d, index, lo, bo)

startup_event == startup(LoadOutcomes, CallOutcomes)

Resume == resume(LoadOutcomes, CallOutcomes)

\* An uploaded file is stamped with the time of the upload, which is not
\* before the time of any file already there.
AddDocument ==
    \E t \in Tasks, file \in FileNames, rec \in {MaxTime} \X Sizes :
        \E lo \in LoadOutcomes, bo \in CallOutcomes : add_document(t, file, rec, lo, bo)

DeleteDocument ==
    \E t \in Tasks, file \in FileNames :
        \E lo \in LoadOutcomes, bo \in CallOutcomes : delete_document(t, file, lo, bo)

startup_event_reliable == startup(Reliable, Reliable)

ResumeReliable == resume(Reliable, Reliable)

-----------------------------------------------------------------------------
(* One start of the service on any disk state *)

Init ==
    /\ dir \in {[ok |-> TRUE, files |-> fs] : fs \in DirListings}
                 \cup {[ok |-> FALSE, files |-> EmptyMap]}
    /\ manifest_file \in {[state |-> "json", data |-> m] : m \in Manifests}
                 \cup {[state |-> st, data |-> EmptyMap] : st \in {"absent", "corrupt"}}
    /\ index = None
    /\ heap \in {[r \in IndexIds |-> IF r = 1 THEN c ELSE {}] : c \in StoreContents}
    /\ task = [t \in Tasks |-> IdleTask]
    /\ started = FALSE
    /\ requests = 0
    /\ last_done = 0

Next == startup_event \/ Resume

Spec == Init /\ [][Next]_vars

\* The same, with a readable directory and collaborators that never fail.
InitReliable == Init /\ dir.ok

NextReliable == startup_event_reliable \/ ResumeReliable

SpecReliable == InitReliable /\ [][NextReliable]_vars

-----------------------------------------------------------------------------
(* The service: a start on a disk a clean run left behind (or a fresh one), *)
(* then upload and delete requests, whose handlers interleave at the awaits *)

InitService ==
    /\ Init
    /\ dir.ok /\ \A f \in DOMAIN dir.files : dir.files[f] = <<1, 1>>
    /\ \/ manifest_file.state = "absent"
       \/ manifest_file = save_manifest(updated_manifest_data(get_document_state(dir)))

NextService == startup_event \/ Resume \/ AddDocument \/ DeleteDocument

SpecService == InitService /\ [][NextService]_vars

\* The service when the only requests are deletions: after the startup
\* cycle the PDFs that stay are never written again.
NextDeletions == startup_event \/ Resume \/ DeleteDocument

SpecDeletions == InitService /\ [][NextDeletions]_vars

-----------------------------------------------------------------------------
(* Properties *)

Done(t) == task[t].pc = "done"

\* A cycle ran (or is running) in slot t.
InCycle(rec) == rec.outcome # ""

OnlyAdded(rec) ==
    rec.docs_to_add # {} /\ rec.docs_to_update = {} /\ rec.filenames_to_delete = {}

NoChange(rec) ==
    rec.docs_to_add = {} /\ rec.docs_to_update = {} /\ rec.filenames_to_delete = {}

NeedsRebuild(rec) == rec.docs_to_update # {} \/ rec.filenames_to_delete # {}

Complete(entry) == DOMAIN entry = {"last_modified", "file_size"}

\* C1 (as claimed): Manifest convergence.  When a cycle has ended, by a
\* return or by an exception, the persisted manifest holds exactly the keys
\* and the (last_modified, file_size) records of the snapshot the cycle took.
C1_ManifestConvergence ==
    \A t \in Tasks :
        Done(t) /\ InCycle(task[t]) =>
            manifest_file =
                save_manifest(updated_manifest_data(task[t].current_document_state))

\* C2 (as claimed): No exception escapes a cycle: whatever the snapshot, the
\* manifest, the existing index and the failures of the collaborators, the
\* cycle returns normally.
C2_NoExceptionEscapes == \A t \in Tasks : task[t].outcome # "raised"

\* C3 (as claimed): Rebuild trigger.  A cycle with a nonempty Updated or
\* Deleted set returns a freshly built index whose documents are exactly the
\* identifiers of the snapshot, also when the snapshot is empty.
C3_RebuildTrigger ==
    \A t \in Tasks :
        Done(t) /\ NeedsRebuild(task[t]) =>
            /\ task[t].outcome = "returned"
            /\ task[t].index_to_return # None
            /\ task[t].index_to_return # task[t].existing_index
            /\ heap[task[t].index_to_return] = DOMAIN task[t].current_document_state

\* The step of slot t in a cycle with only Added files and an existing index.
C4_Step(t) ==
    LET rec == task'[t]
        r == rec.existing_index
        add == rec.docs_to_add
        n == Len(rec.calls)
    IN  task'[t] # task[t] /\ InCycle(rec) /\ OnlyAdded(rec) /\ r # None =>
            /\ n >= 1
            /\ rec.calls[1][1] = "load_files" /\ rec.calls[1][3] = add
            /\ \A i \in 2..n : rec.calls[i][1] \in {"arun", "import", "insert_nodes"}
            /\ \A i \in 2..n : rec.calls[i][1] = "arun" => rec.calls[i][3] \subseteq add
            /\ \A i \in 2..n : rec.calls[i][1] = "insert_nodes" =>
                   rec.calls[i][2] = r /\ rec.calls[i][3] \subseteq add
            /\ rec.index_to_return = r
            /\ heap'[r] \ add = heap[r] \ add
            /\ rec.pc = "done" /\ ~Failed(rec.calls) =>
                   rec.calls[n] = <<"insert_nodes", r, add, "ok">> /\ add \subseteq heap'[r]

C5_Step(t) ==
    LET rec == task'[t]
        r == rec.existing_index
    IN  task'[t] # task[t] /\ InCycle(rec) /\ NoChange(rec) =>
            /\ rec.pc = "done" /\ rec.outcome = "returned"
            /\ rec.index_to_return = r
            /\ rec.calls = <<>>
            /\ index' = r
            /\ r # None => heap'[r] = heap[r]

\* C5: No-change cycle.  With Added, Updated and Deleted empty the cycle
\* returns the index it was given (None included), leaves its content as it
\* was and calls no collaborator.
C5_NoChange == [][\A t \in Tasks : C5_Step(t)]_vars

C5_Witness ==
    \E t \in Tasks :
        /\ Done(t) /\ InCycle(task[t]) /\ NoChange(task[t])
        /\ task[t].current_document_state # EmptyMap
        /\ task[t].existing_index # None
        /\ heap[task[t].existing_index] # {}

\* C6 (as claimed): Coverage.  Every snapshot identifier that is neither
\* Added nor Updated is in the manifest with a record whose last_modified and
\* file_size both equal the snapshot's.
C6_CoverageExact ==
    \A t \in Tasks :
        LET rec == task[t]
            S == rec.current_document_state
            M == rec.manifest_data
        IN  InCycle(rec) =>
              \A f \in DOMAIN S \ (rec.docs_to_add \cup rec.docs_to_update) :
                 /\ f \in DOMAIN M
                 /\ M[f] = [last_modified |-> S[f][1], file_size |-> S[f][2]]

\* C6 (amended): Every snapshot identifier that is neither Added nor Updated
\* is in the manifest with a complete record whose file_size equals the
\* snapshot's and whose last_modified is not less than the snapshot's.
C6_Coverage ==
    \A t \in Tasks :
        LET rec == task[t]
            S == rec.current_document_state
            M == rec.manifest_data
        IN  InCycle(rec) =>
              \A f \in DOMAIN S \ (rec.docs_to_add \cup rec.docs_to_update) :
                 /\ f \in DOMAIN M /\ Complete(M[f])
                 /\ M[f]["file_size"] = S[f][2]
                 /\ M[f]["last_modified"] >= S[f][1]

C6_Witness ==
    \E t \in Tasks :
        LET rec == task[t]
            S == rec.current_document_state
            M == rec.manifest_data
        IN  /\ InCycle(rec)
            /\ \E f \in DOMAIN S \ (rec.docs_to_add \cup rec.docs_to_update) :
                   M[f]["last_modified"] > S[f][1]
            /\ \E f \in DOMAIN S \ (rec.docs_to_add \cup rec.docs_to_update) :
                   M[f]["last_modified"] = S[f][1]

\* C7: Added, Updated and Deleted are pairwise disjoint.
C7_Disjoint ==
    \A t \in Tasks :
        /\ task[t].docs_to_add \cap task[t].docs_to_update = {}
        /\ task[t].filenames_to_delete \cap task[t].docs_to_add = {}
        /\ task[t].filenames_to_delete \cap task[t].docs_to_update = {}

C7_Witness ==
    \E t \in Tasks :
        /\ task[t].filenames_to_delete # {}
        /\ task[t].docs_to_update # {}

\* C8: Change rule.  A file in both snapshot and manifest, with a complete
\* manifest entry, is Updated exactly when the snapshot timestamp is greater
\* than the manifest's or the sizes differ; when it is not Updated it is in
\* none of the three sets.
C8_ChangeRule ==
    \A t \in Tasks :
        LET rec == task[t]
            S == rec.current_document_state
            M == rec.manifest_data
        IN  \A f \in DOMAIN S \cap DOMAIN M :
              Complete(M[f]) =>
                /\ f \in rec.docs_to_update <=>
                      (S[f][1] > M[f]["last_modified"] \/ S[f][2] # M[f]["file_size"])
                /\ f \notin rec.docs_to_update =>
                      f \notin rec.docs_to_add /\ f \notin rec.filenames_to_delete

C8_Witness ==
    \E t \in Tasks :
        LET rec == task[t]
            S == rec.current_document_state
            M == rec.manifest_data
        IN  /\ \E f \in DOMAIN S \cap DOMAIN M :
                 /\ Complete(M[f])
                 /\ S[f][1] = M[f]["last_modified"] /\ S[f][2] # M[f]["file_size"]
                 /\ f \in rec.docs_to_update
            /\ \E f \in DOMAIN S \cap DOMAIN M :
                 /\ Complete(M[f])
                 /\ S[f][1] < M[f]["last_modified"] /\ S[f][2] = M[f]["file_size"]
                 /\ f \notin rec.docs_to_update

\* C9 (as claimed): At most one cycle is in progress at a time.
C9_OneCycleAtATime ==
    Cardinality({t \in Tasks : task[t].pc \in {"await_full", "await_incr"}}) <= 1

\* C10 (as claimed): Forced re-indexing after index loss.  When the startup
\* hook could not load an index and the manifest matches a nonempty
\* directory, the startup cycle returns an index built from the documents
\* that are present.
C10_ForcedReindex ==
    \A t \in Tasks :
        LET rec == task[t]
            S == rec.current_document_state
            M == rec.manifest_data
        IN  /\ Done(t) /\ rec.kind = "startup" /\ rec.existing_index = None
            /\ S # EmptyMap
            /\ [f \in {g \in DOMAIN M : endswith_pdf(g)} |-> M[f]]
                   = updated_manifest_data(S)
            => /\ rec.index_to_return # None
               /\ heap[rec.index_to_return] = DOMAIN S

\* The step at which slot t begins a cycle.
Begins(t) ==
    /\ InCycle(task'[t])
    /\ \/ task[t].pc = "idle" /\ task'[t].pc # "idle"
       \/ requests' # requests /\ free_slot(t)

C11_Step(t) ==
    LET rec == task'[t]
        S == rec.current_document_state
    IN  Begins(t) =>
            /\ rec.manifest_data = IF manifest_file.state = "json"
                                   THEN manifest_file.data ELSE EmptyMap
            /\ rec.outcome \in {"running", "returned", "raised"}
            /\ manifest_file.state # "json" \/ manifest_file.data = EmptyMap =>
                   /\ rec.docs_to_add = DOMAIN S
                   /\ rec.docs_to_update = {}
                   /\ rec.filenames_to_delete = {}

\* C11: Manifest load degrades to empty.  The manifest a cycle works with is
\* the parsed content of the manifest file, or the empty manifest when the
\* file is absent or malformed, and the cycle goes on in either case; with
\* the empty manifest every snapshot identifier is Added and Updated and
\* Deleted are empty.
C11_ManifestLoad == [][\A t \in Tasks : C11_Step(t)]_vars

C11_Witness ==
    \E t \in Tasks :
        /\ task[t].pc = "await_incr" /\ manifest_file.state = "corrupt"
        /\ task[t].manifest_data = EmptyMap
        /\ task[t].docs_to_add = PdfNames
        /\ task[t].docs_to_add = DOMAIN task[t].current_document_state

\* C12 (as claimed): Inaccessible directory.  When the directory cannot be
\* read the snapshot is empty, nothing is Added or Updated, every manifest
\* identifier ending in .pdf is Deleted, and the cycle ends by returning
\* with the empty manifest written back.
C12_InaccessibleDirectory ==
    \A t \in Tasks :
        Done(t) /\ InCycle(task[t]) /\ ~dir.ok =>
            /\ task[t].current_document_state = EmptyMap
            /\ task[t].docs_to_add = {} /\ task[t].docs_to_update = {}
            /\ task[t].filenames_to_delete =
                   {f \in DOMAIN task[t].manifest_data : f[2] = ".pdf"}
            /\ task[t].outcome = "returned"
            /\ manifest_file = [state |-> "json", data |-> EmptyMap]

\* The cycle that finished last caught a failure, and slot t begins the next
\* cycle on PDFs that are as that cycle saw them.
C13_Step(t) ==
    LET u == last_done
        rec == task'[t]
    IN  /\ Begins(t)
        /\ u # 0 /\ Done(u) /\ task[u].outcome = "returned" /\ Failed(task[u].calls)
        /\ rec.current_document_state = task[u].current_document_state
        => /\ NoChange(rec)
           /\ rec.calls = <<>>
           /\ rec.pc = "done" /\ rec.index_to_return = rec.existing_index

C14_Step(t) ==
    LET rec == task'[t]
    IN  task'[t] # task[t] /\ rec.kind = "upload" /\ rec.pc = "done"
        /\ rec.response = "200"
        => index' # None /\ rec.file \in heap'[index']

\* C14 (as claimed): Upload response.  Whenever POST /documents returns
\* "uploaded and indexed successfully", the content of the uploaded file is
\* in the index the service holds at that moment.
C14_UploadResponse == [][\A t \in Tasks : C14_Step(t)]_vars

\* C15: Repair path.  An identifier in both the snapshot and the manifest
\* whose manifest entry lacks last_modified or file_size is Updated,
\* whatever its snapshot record, and the cycle takes the rebuild case: its
\* first call loads the whole directory.
C15_RepairPath ==
    \A t \in Tasks :
        LET rec == task[t]
            S == rec.current_document_state
            M == rec.manifest_data
        IN  InCycle(rec) =>
                \A f \in DOMAIN S \cap DOMAIN M :
                    ~Complete(M[f]) =>
                        /\ f \in rec.docs_to_update /\ f \notin rec.docs_to_add
                        /\ Len(rec.calls) >= 1
                        /\ rec.calls[1][1] = "load_dir" /\ rec.calls[1][3] = {}

C15_Witness ==
    \E t \in Tasks, f \in PdfNames :
        /\ Done(t) /\ ~Failed(task[t].calls)
        /\ f \in DOMAIN task[t].current_document_state
        /\ f \in DOMAIN task[t].manifest_data
        /\ task[t].manifest_data[f] = [k \in {"last_modified"} |-> 1]
        /\ task[t].current_document_state[f][1] = 1
        /\ task[t].docs_to_update = {f}
        /\ task[t].index_to_return # None
        /\ f \in heap[task[t].index_to_return]

\* C16 (as claimed): the Added set is the snapshot identifiers absent from
\* the manifest together with the snapshot identifiers whose manifest entry
\* lacks a required field.
C16_AddedWithIncomplete ==
    \A t \in Tasks :
        LET rec == task[t]
            S == rec.current_document_state
            M == rec.manifest_data
        IN  InCycle(rec) =>
                rec.docs_to_add =
                    {f \in DOMAIN S : f \notin DOMAIN M \/ ~Complete(M[f])}

\* C16 (amended): the Added set is exactly the snapshot identifiers absent
\* from the manifest; a snapshot identifier whose manifest entry lacks a
\* required field is not Added, it is Updated.
C16_Added ==
    \A t \in Tasks :
        LET rec == task[t]
            S == rec.current_document_state
            M == rec.manifest_data
        IN  InCycle(rec) =>
                /\ rec.docs_to_add = DOMAIN S \ DOMAIN M
                /\ \A f \in DOMAIN S \cap DOMAIN M :
                       ~Complete(M[f]) => f \in rec.docs_to_update \ rec.docs_to_add

C16_Witness ==
    \E t \in Tasks :
        LET rec == task[t]
            S == rec.current_document_state
            M == rec.manifest_data
        IN  /\ InCycle(rec)
            /\ rec.docs_to_add # {} /\ rec.docs_to_add # DOMAIN S
            /\ \E f \in DOMAIN S \cap DOMAIN M : ~Complete(M[f])

\* C17: Deleted detection.  An identifier is Deleted if and only if it is a
\* manifest key, is not in the snapshot and ends in .pdf, which is the test
\* every snapshot key has passed; when the only manifest keys missing from
\* the snapshot have another extension and nothing is Updated, the cycle
\* does not take the rebuild case.
C17_DeletedDetection ==
    \A t \in Tasks :
        LET rec == task[t]
            S == rec.current_document_state
            M == rec.manifest_data
        IN  InCycle(rec) =>
                /\ \A f \in FileNames :
                       f \in rec.filenames_to_delete <=>
                           f \in DOMAIN M /\ f \notin DOMAIN S /\ f[2] = ".pdf"
                /\ rec.filenames_to_delete \subseteq FileNames
                /\ \A f \in DOMAIN S : f[2] = ".pdf"
                /\ (rec.docs_to_update = {}
                      /\ \A f \in DOMAIN M \ DOMAIN S : f[2] # ".pdf") =>
                       \A i \in 1..Len(rec.calls) : rec.calls[i][1] # "load_dir"

C17_Witness ==
    \E t \in Tasks :
        LET rec == task[t]
            S == rec.current_document_state
            M == rec.manifest_data
        IN  /\ Done(t) /\ InCycle(rec)
            /\ <<"n", ".txt">> \in DOMAIN M \ DOMAIN S
            /\ <<"n", ".txt">> \in DOMAIN dir.files
            /\ rec.filenames_to_delete = {<<"a", ".pdf">>}
            /\ DOMAIN S = {<<"b", ".pdf">>}

\* C18: Only Added with no existing index.  The cycle runs without
\* suspending; its first call loads exactly the Added files; it calls
\* neither the ingestion transform nor node insertion nor the directory
\* load; when the load and the construction succeed it has constructed one
\* new index from the Added files and returns it.
C18_NewIndex ==
    \A t \in Tasks :
        LET rec == task[t]
            add == rec.docs_to_add
            n == Len(rec.calls)
        IN  InCycle(rec) /\ OnlyAdded(rec) /\ rec.existing_index = None =>
                /\ rec.pc = "done"
                /\ n \in {1, 2}
                /\ rec.calls[1][1] = "load_files" /\ rec.calls[1][3] = add
                /\ n = 2 => rec.calls[2][1] = "from_documents" /\ rec.calls[2][3] = add
                /\ ~Failed(rec.calls) =>
                       /\ n = 2 /\ rec.outcome = "returned"
                       /\ rec.index_to_return # None
                       /\ rec.calls[2][2] = rec.index_to_return
                       /\ index = rec.index_to_return
                       /\ heap[rec.index_to_return] = add

C18_Witness ==
    \E t \in Tasks :
        /\ Done(t) /\ OnlyAdded(task[t]) /\ task[t].existing_index = None
        /\ ~Failed(task[t].calls) /\ task[t].outcome = "returned"
        /\ task[t].index_to_return # None
        /\ heap[task[t].index_to_return] = task[t].docs_to_add

\* The step that ends a cycle of slot t with only Added files, an existing
\* index and a failed call.
C19_Step(t) ==
    LET rec == task'[t]
        r == rec.existing_index
    IN  task'[t] # task[t] /\ rec.pc = "done" /\ InCycle(rec) /\ OnlyAdded(rec)
        /\ r # None /\ Failed(rec.calls)
        => /\ rec.outcome = "returned"
           /\ rec.index_to_return = r /\ index' = r
           /\ heap'[r] = heap[r]
           /\ manifest_file' =
                  [state |-> "json",
                   data |-> updated_manifest_data(rec.current_document_state)]

\* C19 (as claimed): Failure on the incremental path.  When the content
\* load, the ingestion transform or the node insertion fails in a cycle with
\* only Added identifiers and an existing index, the cycle returns (nothing
\* is raised), it returns the existing index with the contents it had, and
\* the manifest is rewritten to the snapshot of the cycle.
C19_IncrementalFailure == [][\A t \in Tasks : C19_Step(t)]_vars

\* The documents represented in an index; None represents nothing.
Represented(ref) == IF ref = None THEN {} ELSE heap[ref]

\* C20 (as claimed): Index follows the directory.  When no collaborator
\* fails, whatever the manifest and the existing index at the start, the
\* index a cycle returns represents exactly the identifiers of the snapshot
\* of that cycle; in particular a cycle with only Added identifiers and no
\* existing index returns an index that has the unchanged documents too.
C20_IndexFollowsDirectory ==
    \A t \in Tasks :
        Done(t) /\ task[t].outcome = "returned" /\ ~Failed(task[t].calls) =>
            /\ index = task[t].index_to_return
            /\ Represented(task[t].index_to_return) =
                   DOMAIN task[t].current_document_state

\* C21 (as claimed): No lost manifest update under interleaving.  Once the
\* service has started and no cycle is suspended at an await, and every
\* cycle on record returned, the persisted manifest holds exactly the PDFs
\* of the directory with their records: no cycle that took its snapshot
\* earlier has overwritten the manifest of a cycle that took it later.
C21_NoLostManifestUpdate ==
    /\ started
    /\ \A t \in Tasks : task[t].pc \notin {"await_full", "await_incr"}
    /\ \A t \in Tasks : InCycle(task[t]) => task[t].outcome = "returned"
    => manifest_file =
           [state |-> "json",
            data |-> updated_manifest_data(get_document_state(dir))]

\* The calls of a cycle that put the content of file f into the index the
\* cycle returns: the construction of that index from documents, and an
\* insertion of nodes into it.
Puts(rec, f) ==
    {i \in 1..Len(rec.calls) :
        /\ rec.calls[i][1] \in {"from_documents", "insert_nodes"}
        /\ rec.calls[i][2] = rec.index_to_return
        /\ rec.calls[i][4] = "ok"
        /\ f \in rec.calls[i][3]}

====
